---- MODULE Spec2Model ----
(***************************************************************************)
(* Water Safety Monitor (src/main.py): the risk scorer, the recommendation *)
(* selector and the history manager, as state machines.                    *)
(*                                                                         *)
(* Units.  Temperatures are whole degrees Celsius, humidities whole        *)
(* percents, precipitation amounts tenths of a millimetre (Mm(n) is n mm)  *)
(* and scores eightieths of a point (Pt(n) is n points), so that every     *)
(* quotient the scorer forms on these inputs is an exact integer.  The     *)
(* program computes in binary floating point; its rounding (at most one    *)
(* unit in the last place per operation) is not modelled.                  *)
(*                                                                         *)
(* An optional JSON number is <<>> (key missing or null) or <<v>>.         *)
(***************************************************************************)
EXTENDS Integers, Sequences, FiniteSets, TLC

VARIABLES
    weather_data,         \* scorer: the snapshot passed to calculate_risk_score
    user_observations,    \* scorer: the observations passed to it, in caller order
    result,               \* scorer: the triple it returned
    rec_level,            \* selector: level of the last get_recommendations call
    rec_score,            \* selector: score of the last get_recommendations call
    rec,                  \* selector: what that call returned
    now,                  \* app: datetime.now(), in days
    history,              \* app: st.session_state.history
    store,                \* app: contents of HISTORY_FILE
    current_assessment,   \* app: st.session_state.current_assessment
    status,               \* app: the message the last handler displayed
    last                  \* app: history variable, the last handler and the history it started from

scorerVars == <<weather_data, user_observations, result>>
selectorVars == <<rec_level, rec_score, rec>>
appVars == <<now, history, store, current_assessment, status, last>>
vars == <<weather_data, user_observations, result, rec_level, rec_score, rec,
          now, history, store, current_assessment, status, last>>

----------------------------------------------------------------------------
(* Bounds and units *)

MaxObs == 2
MaxHist == 11

Pt(n) == n * 80
Mm(n) == n * 10

Min(a, b) == IF a < b THEN a ELSE b
Max(a, b) == IF a > b THEN a ELSE b

Range(s) == {s[i] : i \in 1..Len(s)}

Run(n, v) == [i \in 1..n |-> v]

----------------------------------------------------------------------------
(* Python helpers *)

\* dict.get(key, default) on a key that is missing or holds a number
Get(opt, default) == IF opt = <<>> THEN default ELSE opt[1]

\* truth value of None / a number
Truthy(opt) == opt # <<>> /\ opt[1] # 0

\* a or b
PyOr(a, b) == IF Truthy(a) THEN a ELSE b

\* seq[-n:]
LastN(seq, n) == SubSeq(seq, Max(1, Len(seq) - n + 1), Len(seq))

\* the list reversed, then cut: sorted newest first before [:n]
ReversedFirstN(seq, n) ==
    [i \in 1..(IF n < Len(seq) THEN n ELSE Len(seq)) |-> seq[Len(seq) + 1 - i]]

\* seq[:n]
FirstN(seq, n) == SubSeq(seq, 1, Min(n, Len(seq)))

\* sum(seq)
RECURSIVE SumFrom(_, _)
SumFrom(seq, i) == IF i > Len(seq) THEN 0 ELSE seq[i] + SumFrom(seq, i + 1)

sum(seq) == SumFrom(seq, 1)

----------------------------------------------------------------------------
(* Risk model: calculate_risk_score *)

None == [absent |-> "None"]
EmptyDict == [absent |-> "{}"]

\* not weather_data
NotWeather(w) == w \in {None, EmptyDict}

\* obs_risk_map, in declaration order
obs_risk_map == <<
    [obs |-> "Water looks cloudy/murky", risk_value |-> Pt(15)],
    [obs |-> "Unusual smell", risk_value |-> Pt(20)],
    [obs |-> "Visible contamination", risk_value |-> Pt(25)],
    [obs |-> "Nearby flooding", risk_value |-> Pt(20)],
    [obs |-> "Dead fish/animals nearby", risk_value |-> Pt(25)],
    [obs |-> "Industrial discharge observed", risk_value |-> Pt(30)],
    [obs |-> "Sewage overflow", risk_value |-> Pt(35)] >>

\* an accumulator is [risk_score, risk_factors]
Add(acc, risk, factor) ==
    [risk_score |-> acc.risk_score + risk, risk_factors |-> Append(acc.risk_factors, factor)]

TemperatureRisk(acc, w) ==
    LET temp == Get(w.temperature_2m, 0)
    IN  IF 20 <= temp /\ temp <= 45
        THEN Add(acc, Min(Pt(25), ((temp - 20) * Pt(25)) \div 25),
                 <<"Temperature in bacterial growth range", temp>>)
        ELSE IF temp > 45
        THEN Add(acc, Pt(15), <<"Very high temperature", temp>>)
        ELSE acc

HumidityRisk(acc, w) ==
    LET humidity == Get(w.relative_humidity_2m, 0)
    IN  IF humidity > 70
        THEN Add(acc, Min(Pt(15), ((humidity - 70) * Pt(15)) \div 30),
                 <<"High humidity", humidity>>)
        ELSE acc

CurrentRainRisk(acc, w) ==
    LET current_rain == PyOr(w.precipitation, w.rain)
    IN  IF Truthy(current_rain) /\ current_rain[1] > 0
        THEN Add(acc, Min(Pt(20), (current_rain[1] * Pt(4)) \div 10),
                 <<"Active rainfall", current_rain[1]>>)
        ELSE acc

Rain24h(acc, precip_24h) ==
    IF precip_24h > Mm(10)
    THEN Add(acc, Min(Pt(25), ((precip_24h - Mm(10)) * Pt(25)) \div Mm(40)),
             <<"Heavy rain in last 24h", precip_24h>>)
    ELSE IF precip_24h > Mm(5)
    THEN Add(acc, Pt(10), <<"Moderate rain in last 24h", precip_24h>>)
    ELSE acc

\* Rain72h written as a further elif of the 24 h rule
Rain72hElif(acc, precip_72h) ==
    IF acc.risk_factors # <<>>
       /\ acc.risk_factors[Len(acc.risk_factors)][1]
              \in {"Heavy rain in last 24h", "Moderate rain in last 24h"}
    THEN acc
    ELSE IF precip_72h > Mm(50)
    THEN Add(acc, Pt(15), <<"Prolonged rainfall over 3 days", precip_72h>>)
    ELSE acc

Rain72h(acc, precip_72h) ==
    IF precip_72h > Mm(50)
    THEN Add(acc, Pt(15), <<"Prolonged rainfall over 3 days", precip_72h>>)
    ELSE acc

\* AccumulatedRainRisk with the 72 h rule evaluated before the 24 h rule
AccumulatedRainRisk72First(acc, w) ==
    IF w.hourly_precipitation = <<>>
    THEN acc
    ELSE
    LET last72 == LastN(w.hourly_precipitation[1], 72)
        precip_data == [i \in 1..Len(last72) |-> IF Truthy(last72[i]) THEN last72[i][1] ELSE 0]
    IN  Rain24h(Rain72h(acc, sum(precip_data)), sum(LastN(precip_data, 24)))

AccumulatedRainRisk(acc, w) ==
    IF w.hourly_precipitation = <<>>
    THEN acc
    ELSE
    LET last72 == LastN(w.hourly_precipitation[1], 72)
        precip_data == [i \in 1..Len(last72) |-> IF Truthy(last72[i]) THEN last72[i][1] ELSE 0]
    IN  Rain72h(Rain24h(acc, sum(LastN(precip_data, 24))), sum(precip_data))

\* ObservationRisk looping over the caller's list instead of the mapping
RECURSIVE ObservationRiskByCaller(_, _, _)
ObservationRiskByCaller(acc, obs, i) ==
    IF i > Len(obs)
    THEN acc
    ELSE ObservationRiskByCaller(
            IF \E k \in 1..Len(obs_risk_map) : obs_risk_map[k].obs = obs[i]
            THEN Add(acc,
                     obs_risk_map[CHOOSE k \in 1..Len(obs_risk_map) :
                                     obs_risk_map[k].obs = obs[i]].risk_value,
                     <<"Observation", obs[i]>>)
            ELSE acc,
            obs, i + 1)

\* for obs, risk_value in obs_risk_map.items(): from entry i on
RECURSIVE ObservationRisk(_, _, _)
ObservationRisk(acc, obs, i) ==
    IF i > Len(obs_risk_map)
    THEN acc
    ELSE ObservationRisk(
            IF obs_risk_map[i].obs \in Range(obs)
            THEN Add(acc, obs_risk_map[i].risk_value, <<"Observation", obs_risk_map[i].obs>>)
            ELSE acc,
            obs, i + 1)

\* RiskLevel with inclusive upper thresholds
RiskLevelInclusive(risk_score) ==
    IF risk_score <= Pt(30) THEN "Safe"
    ELSE IF risk_score <= Pt(60) THEN "Caution"
    ELSE "Unsafe"

RiskLevel(risk_score) ==
    IF risk_score < Pt(30) THEN "Safe"
    ELSE IF risk_score < Pt(60) THEN "Caution"
    ELSE "Unsafe"

\* Clamp without the upper limit
ClampMissing(risk_score) == risk_score

Clamp(risk_score) == Min(Pt(100), risk_score)

Fallback ==
    [risk_score |-> Pt(50), risk_factors |-> << <<"Unable to fetch weather data">> >>,
     risk_level |-> "Caution"]

\* risk_score = min(100, risk_score), the level, the returned triple
Finish(acc) ==
    [risk_score |-> Clamp(acc.risk_score),
     risk_factors |-> acc.risk_factors,
     risk_level |-> RiskLevel(Clamp(acc.risk_score))]

\* calculate_risk_score whose fallback still runs the observation rule
calculate_risk_score_late_return(w, obs) ==
    IF NotWeather(w)
    THEN Finish(ObservationRisk([risk_score |-> Fallback.risk_score,
                                 risk_factors |-> Fallback.risk_factors], obs, 1))
    ELSE Finish(ObservationRisk(
                    AccumulatedRainRisk(
                        CurrentRainRisk(
                            HumidityRisk(
                                TemperatureRisk([risk_score |-> 0, risk_factors |-> <<>>], w),
                                w),
                            w),
                        w),
                    obs, 1))

calculate_risk_score(w, obs) ==
    IF NotWeather(w)
    THEN Fallback
    ELSE Finish(ObservationRisk(
                    AccumulatedRainRisk(
                        CurrentRainRisk(
                            HumidityRisk(
                                TemperatureRisk([risk_score |-> 0, risk_factors |-> <<>>], w),
                                w),
                            w),
                        w),
                    obs, 1))

----------------------------------------------------------------------------
(* Scorer inputs *)

Vocabulary == {obs_risk_map[i].obs : i \in 1..Len(obs_risk_map)}

\* the vocabulary and one tag outside it
Tags == Vocabulary \cup {"Algae bloom"}

Temperatures == {<<>>, <<19>>, <<20>>, <<25>>, <<35>>, <<45>>, <<46>>}

Humidities == {<<50>>, <<70>>, <<80>>, <<100>>}

\* <<precipitation, rain>> of the current conditions
CurrentRains == {<< <<0>>, <<0>> >>, << <<30>>, <<0>> >>, << <<0>>, <<5>> >>, << <<>>, <<80>> >>}

HourlySeries == {
    <<>>,                                                      \* no hourly precipitation
    << Run(72, <<0>>) >>,                                      \* dry
    << Run(48, <<0>>) \o Run(24, <<3>>) >>,                    \* 7.2 mm in the last 24 h
    << Run(72, <<5>>) >>,                                      \* 12 mm in 24 h, 36 mm in 72 h
    << Run(28, <<0>>) \o Run(20, <<30>>) \o Run(24, <<0>>) >>, \* 60 mm, all older than 24 h
    << Run(48, <<>>) \o Run(24, <<25>>) >>,                    \* nulls, then 60 mm in 24 h
    << Run(30, <<50>>) \o Run(72, <<0>>) >> }                  \* 150 mm, all older than 72 h

Snapshot(t, h, r, hp) ==
    [temperature_2m |-> t, relative_humidity_2m |-> h, precipitation |-> r[1], rain |-> r[2],
     hourly_precipitation |-> hp]

\* a snapshot with no risk in it
Calm == Snapshot(<<>>, <<50>>, << <<0>>, <<0>> >>, <<>>)

\* the number of fields in which a snapshot differs from Calm
Departures(w) ==
    Cardinality({f \in {"temperature_2m", "relative_humidity_2m", "hourly_precipitation"} :
                    w[f] # Calm[f]})
    + (IF <<w.precipitation, w.rain>> # <<Calm.precipitation, Calm.rain>> THEN 1 ELSE 0)

\* every snapshot that departs from Calm in at most two fields, and three with more
WeatherSnapshots ==
    {w \in {Snapshot(t, h, r, hp) : t \in Temperatures, h \in Humidities, r \in CurrentRains,
                                     hp \in HourlySeries} : Departures(w) <= 2}
    \cup {Snapshot(<<25>>, <<80>>, << <<30>>, <<0>> >>, <<>>),
          Snapshot(<<45>>, <<100>>, << <<>>, <<80>> >>, << Run(48, <<>>) \o Run(24, <<25>>) >>),
          Snapshot(<<46>>, <<80>>, << <<0>>, <<5>> >>, << Run(72, <<5>>) >>)}

----------------------------------------------------------------------------
(* The scorer as a state machine: the caller edits the observations and     *)
(* calls calculate_risk_score again on the same snapshot.                   *)

IdleSelector == /\ rec_level = "Caution" /\ rec_score = 0 /\ rec = <<>>
IdleApp == /\ now = 0 /\ history = <<>> /\ store = <<>> /\ current_assessment = <<>>
           /\ status = "" /\ last = <<>>
IdleScorer == /\ weather_data = None /\ user_observations = <<>> /\ result = <<>>

ScoreInit ==
    /\ weather_data \in WeatherSnapshots \cup {None, EmptyDict}
    /\ user_observations = <<>>
    /\ result = calculate_risk_score(weather_data, user_observations)
    /\ IdleSelector
    /\ IdleApp

Rescore(obs) ==
    /\ user_observations' = obs
    /\ result' = calculate_risk_score(weather_data, obs)
    /\ UNCHANGED <<weather_data, selectorVars, appVars>>

SelectObservation(t) ==
    /\ Len(user_observations) < MaxObs
    /\ Rescore(Append(user_observations, t))

DeselectObservation(i) ==
    /\ i \in 1..Len(user_observations)
    /\ Rescore(SubSeq(user_observations, 1, i - 1)
               \o SubSeq(user_observations, i + 1, Len(user_observations)))

ReorderObservations(i) ==
    /\ i \in 1..(Len(user_observations) - 1)
    /\ user_observations[i] # user_observations[i + 1]
    /\ Rescore([user_observations EXCEPT ![i] = user_observations[i + 1],
                                         ![i + 1] = user_observations[i]])

ScoreNext ==
    \/ \E t \in Tags : SelectObservation(t)
    \/ \E i \in 1..MaxObs : DeselectObservation(i)
    \/ \E i \in 1..MaxObs : ReorderObservations(i)

ScoreSpec == ScoreInit /\ [][ScoreNext]_vars

----------------------------------------------------------------------------
(* The scorer's rules as section 4.1 of the specification states them *)

present == ~NotWeather(weather_data)

\* the value of an optional number in a sum
Amount(opt) == IF opt = <<>> THEN 0 ELSE opt[1]

TemperatureOf(w) == Amount(w.temperature_2m)

TemperatureContribution(w) ==
    LET t == TemperatureOf(w)
    IN  IF t >= 20 /\ t <= 45 THEN Min(Pt(25), Pt(t - 20))
        ELSE IF t > 45 THEN Pt(15)
        ELSE 0

HumidityContribution(w) ==
    LET h == Amount(w.relative_humidity_2m)
    IN  IF h > 70 THEN Min(Pt(15), Pt(h - 70) \div 2) ELSE 0

ActiveRainContribution(w) ==
    LET r == IF Amount(w.precipitation) # 0 THEN Amount(w.precipitation) ELSE Amount(w.rain)
    IN  IF r > 0 THEN Min(Pt(20), (4 * Pt(r)) \div Mm(1)) ELSE 0

\* the k-th most recent and older samples of a series, up to the n-th, nulls as 0
RECURSIVE Backwards(_, _, _)
Backwards(series, n, k) ==
    IF k > n \/ k > Len(series)
    THEN 0
    ELSE Amount(series[Len(series) + 1 - k]) + Backwards(series, n, k + 1)

\* precipitation of the n most recent hourly samples
Accumulated(w, n) ==
    IF w.hourly_precipitation = <<>> THEN 0 ELSE Backwards(w.hourly_precipitation[1], n, 1)

Rain24hContribution(w) ==
    LET p24 == Accumulated(w, 24)
    IN  IF p24 > Mm(10) THEN Min(Pt(25), (5 * Pt(p24 - Mm(10))) \div (8 * Mm(1)))
        ELSE IF p24 > Mm(5) THEN Pt(10)
        ELSE 0

Rain72hContribution(w) == IF Accumulated(w, 72) > Mm(50) THEN Pt(15) ELSE 0

\* the vocabulary tags among the observations
TagsPresent(obs) == Range(obs) \cap Vocabulary

MapIndex(tag) == CHOOSE i \in 1..Len(obs_risk_map) : obs_risk_map[i].obs = tag

RECURSIVE SetPoints(_)
SetPoints(tags) ==
    IF tags = {}
    THEN 0
    ELSE LET t == CHOOSE x \in tags : TRUE
         IN  obs_risk_map[MapIndex(t)].risk_value + SetPoints(tags \ {t})

ObservationContribution(obs) == SetPoints(TagsPresent(obs))

ContributionSum(w, obs) ==
    TemperatureContribution(w) + HumidityContribution(w) + ActiveRainContribution(w)
    + Rain24hContribution(w) + Rain72hContribution(w) + ObservationContribution(obs)

----------------------------------------------------------------------------
(* Claims about the scorer, checked under ScoreSpec *)

\* C4: for every snapshot, present or absent, and every observation list, the
\* returned score lies in [0, 100].
C4_ScoreInRange == result.risk_score >= 0 /\ result.risk_score <= Pt(100)

\* the contributions add up to more than 100 and the score returned is 100
C4_Witness ==
    /\ present
    /\ ContributionSum(weather_data, user_observations) > Pt(100)
    /\ result.risk_score = Pt(100)

\* the levels from lowest to highest risk
Severity(level) == CASE level = "Safe" -> 0 [] level = "Caution" -> 1 [] level = "Unsafe" -> 2

\* the scores on either side of each threshold, and the extremes
BandEdges == {0, Pt(30) - 1, Pt(30), Pt(60) - 1, Pt(60), Pt(100)}

\* C5: the level is determined by the returned score alone: Safe below 30,
\* Caution from 30 up to but excluding 60, Unsafe from 60 on; a higher score
\* never has a lower level.
C5_LevelFromScore ==
    /\ result.risk_level \in {"Safe", "Caution", "Unsafe"}
    /\ \A a \in BandEdges :
           a >= result.risk_score => Severity(RiskLevel(a)) >= Severity(result.risk_level)
    /\ \A a \in BandEdges :
           a <= result.risk_score => Severity(RiskLevel(a)) <= Severity(result.risk_level)
    /\ result.risk_level = "Safe" <=> result.risk_score < Pt(30)
    /\ result.risk_level = "Caution" <=> (Pt(30) <= result.risk_score /\ result.risk_score < Pt(60))
    /\ result.risk_level = "Unsafe" <=> result.risk_score >= Pt(60)

\* a present snapshot scored exactly 30, the lowest Caution score
C5_Witness == present /\ result.risk_score = Pt(30) /\ result.risk_level = "Caution"

\* C6: with the snapshot absent the scorer returns exactly
\* (50, ["Unable to fetch weather data"], "Caution"), whatever the observations.
C6_AbsentFallback ==
    ~present =>
        /\ result.risk_score = Pt(50)
        /\ result.risk_factors = << <<"Unable to fetch weather data">> >>
        /\ result.risk_level = "Caution"

\* an absent snapshot scored together with a vocabulary observation
C6_Witness ==
    /\ weather_data = None
    /\ "Sewage overflow" \in Range(user_observations)
    /\ result.risk_score = Pt(50)

Example1 == Snapshot(<<35>>, <<50>>, << <<0>>, <<0>> >>, <<>>)
Example2 == Snapshot(<<25>>, <<80>>, << <<30>>, <<0>> >>, <<>>)
Example3 == Snapshot(<<>>, <<50>>, << <<0>>, <<0>> >>,
                     << Run(28, <<0>>) \o Run(20, <<30>>) \o Run(24, <<0>>) >>)

\* C7: with the snapshot present the score is min(100, sum of the six
\* contributions), each computed by its own rule; the four scenarios of the
\* specification score 15 (Safe), 57 (Caution), 15 (Safe) and 55 (Caution).
C7_ScoreIsSum ==
    present =>
        /\ result.risk_score = Min(Pt(100), ContributionSum(weather_data, user_observations))
        /\ (weather_data = Example1 /\ user_observations = <<>>)
               => (result.risk_score = Pt(15) /\ result.risk_level = "Safe")
        /\ (weather_data = Example2 /\ user_observations = <<"Sewage overflow">>)
               => (result.risk_score = Pt(57) /\ result.risk_level = "Caution")
        /\ (weather_data = Example3 /\ user_observations = <<>>)
               => (result.risk_score = Pt(15) /\ result.risk_level = "Safe")
        /\ (weather_data = Calm
            /\ Range(user_observations) = {"Industrial discharge observed", "Visible contamination"})
               => (result.risk_score = Pt(55) /\ result.risk_level = "Caution")

\* the second scenario: 25 C, 80 %, 3 mm, sewage overflow
C7_Witness ==
    /\ weather_data = Example2
    /\ user_observations = <<"Sewage overflow">>
    /\ result.risk_score = Pt(57)

\* the rule a factor belongs to: 1..5 for the weather rules in evaluation
\* order, 5 + i for the i-th tag of the mapping
Rule(factor) ==
    IF factor[1] \in {"Temperature in bacterial growth range", "Very high temperature"} THEN 1
    ELSE IF factor[1] = "High humidity" THEN 2
    ELSE IF factor[1] = "Active rainfall" THEN 3
    ELSE IF factor[1] \in {"Heavy rain in last 24h", "Moderate rain in last 24h"} THEN 4
    ELSE IF factor[1] = "Prolonged rainfall over 3 days" THEN 5
    ELSE IF factor[1] = "Observation" /\ factor[2] \in Vocabulary THEN 5 + MapIndex(factor[2])
    ELSE 0

RulesReported == {Rule(result.risk_factors[i]) : i \in 1..Len(result.risk_factors)}

\* the factors are in rule order, one per rule at most
FactorsInRuleOrder ==
    /\ 0 \notin RulesReported
    /\ \A i, j \in 1..Len(result.risk_factors) :
           i < j => Rule(result.risk_factors[i]) < Rule(result.risk_factors[j])

\* the contribution of weather rule k
WeatherContribution(w, k) ==
    CASE k = 1 -> TemperatureContribution(w)
      [] k = 2 -> HumidityContribution(w)
      [] k = 3 -> ActiveRainContribution(w)
      [] k = 4 -> Rain24hContribution(w)
      [] k = 5 -> Rain72hContribution(w)

ObservationFactorsMatch ==
    \A i \in 1..Len(obs_risk_map) :
        (5 + i) \in RulesReported <=> obs_risk_map[i].obs \in Range(user_observations)

\* C8 as stated: the factors follow the rule order, then the mapping's order,
\* and a rule has a factor exactly when its contribution is positive.
C8_FactorIffContributes ==
    present =>
        /\ FactorsInRuleOrder
        /\ ObservationFactorsMatch
        /\ \A k \in 1..5 : k \in RulesReported <=> WeatherContribution(weather_data, k) > 0

\* C8, amended: the factors follow the rule order, then the mapping's order
\* whatever the caller's order; a rule has a factor exactly when its
\* contribution is positive, except that a temperature of exactly 20 C has
\* the temperature factor with a contribution of 0.
C8_FactorOrder ==
    present =>
        /\ FactorsInRuleOrder
        /\ ObservationFactorsMatch
        /\ \A k \in 1..5 :
               k \in RulesReported <=>
                   \/ WeatherContribution(weather_data, k) > 0
                   \/ k = 1 /\ TemperatureOf(weather_data) = 20

\* 20 C, and two observations given in the reverse of the mapping's order
C8_Witness ==
    /\ present
    /\ TemperatureOf(weather_data) = 20
    /\ user_observations = <<"Sewage overflow", "Unusual smell">>
    /\ result.risk_factors = << <<"Temperature in bacterial growth range", 20>>,
                                <<"Observation", "Unusual smell">>,
                                <<"Observation", "Sewage overflow">> >>

\* C9: a call with the same snapshot and the same vocabulary tags present
\* (reordered, repeated, or with tags outside the vocabulary added or removed)
\* returns the same score, factors and level.
C9_ObservationsAsSet ==
    [][(weather_data' = weather_data
        /\ TagsPresent(user_observations') = TagsPresent(user_observations))
           => result' = result]_vars

\* one tag given twice next to a tag outside the vocabulary scores once
C9_Witness ==
    /\ weather_data = Calm
    /\ Len(user_observations) = MaxObs
    /\ TagsPresent(user_observations) = {"Sewage overflow"}
    /\ result.risk_score = Pt(35)
    /\ result.risk_factors = << <<"Observation", "Sewage overflow">> >>

----------------------------------------------------------------------------
(* Recommendation selector: get_recommendations *)

CriticalAlert == "**CRITICAL**: Risk score is very high - take immediate action"

\* the dict literal get_recommendations builds on every call
recommendations(level) ==
    CASE level = "Safe" ->
           [title |-> "Water Appears Safe",
            actions |-> << "Water quality indicators are within normal parameters",
                           "Standard water usage is acceptable",
                           "Continue monitoring conditions regularly",
                           "Follow local water authority guidelines" >>,
            color |-> "safe"]
      [] level = "Caution" ->
           [title |-> "Exercise Caution",
            actions |-> << "**Boil water for at least 1 minute before drinking**",
                           "Use bottled water for drinking and cooking if available",
                           "Wash hands thoroughly after water contact",
                           "Monitor for any health symptoms",
                           "Avoid using water for infant formula preparation",
                           "Check with local water authorities for updates" >>,
            color |-> "caution"]
      [] level = "Unsafe" ->
           [title |-> "Water Quality Alert - High Risk",
            actions |-> << "**DO NOT drink tap water**",
                           "Use only bottled or commercially treated water",
                           "Avoid water contact with open wounds",
                           "Do not use for cooking, brushing teeth, or ice making",
                           "Boiling may not remove all contaminants",
                           "Contact local health authorities immediately",
                           "Consider evacuation if contamination is severe",
                           "Monitor official advisories closely" >>,
            color |-> "unsafe"]

\* recommendations.get(risk_level, recommendations["Caution"])
Lookup(level) ==
    IF level \in {"Safe", "Caution", "Unsafe"}
    THEN recommendations(level)
    ELSE recommendations("Caution")

\* list.insert(0, x)
Insert0(list, x) == <<x>> \o list

\* get_recommendations over a table that outlives the call: the list a call
\* returned is the table's own list, so the next call for the same entry starts
\* from it
get_recommendations_shared_table(risk_level, risk_score) ==
    LET entry == IF rec # <<>> /\ rec.title = Lookup(risk_level).title
                 THEN rec
                 ELSE Lookup(risk_level)
    IN  IF risk_score >= Pt(80)
        THEN [entry EXCEPT !.actions = Insert0(entry.actions, CriticalAlert)]
        ELSE entry

get_recommendations(risk_level, risk_score) ==
    LET entry == Lookup(risk_level)
    IN  IF risk_score >= Pt(80)
        THEN [entry EXCEPT !.actions = Insert0(entry.actions, CriticalAlert)]
        ELSE entry

Levels == {"Safe", "Caution", "Unsafe", "Unknown"}

\* every whole score, and the largest score of the model below 80
Scores == {Pt(k) : k \in 0..100} \cup {Pt(80) - 1}

RecInit == IdleScorer /\ IdleSelector /\ IdleApp

GetRecommendations(level, score) ==
    /\ rec_level' = level
    /\ rec_score' = score
    /\ rec' = get_recommendations(level, score)
    /\ UNCHANGED <<scorerVars, appVars>>

RecNext == \E level \in Levels, score \in Scores : GetRecommendations(level, score)

RecSpec == RecInit /\ [][RecNext]_vars

\* the number of critical alerts in a list of actions
Alerts(actions) == Cardinality({i \in 1..Len(actions) : actions[i] = CriticalAlert})

\* the table entry the specification selects for a level
TableEntry(level) ==
    IF level = "Safe" THEN recommendations("Safe")
    ELSE IF level = "Unsafe" THEN recommendations("Unsafe")
    ELSE recommendations("Caution")

\* C10: every call returns the level's action list, with exactly one critical
\* alert in front of it when the score is at least 80 and unmodified below 80,
\* whatever calls came before.
C10_AlertPrependedOnce ==
    rec # <<>> =>
        /\ rec.title = TableEntry(rec_level).title
        /\ rec.color = TableEntry(rec_level).color
        /\ rec_score >= Pt(80) =>
               /\ Head(rec.actions) = CriticalAlert
               /\ Tail(rec.actions) = TableEntry(rec_level).actions
               /\ Alerts(rec.actions) = 1
        /\ rec_score < Pt(80) => rec.actions = TableEntry(rec_level).actions

\* a Safe level with a score of 80: the alert leads the Safe actions
C10_Witness ==
    /\ rec # <<>>
    /\ rec_level = "Safe"
    /\ rec_score = Pt(80)
    /\ Len(rec.actions) = 5
    /\ Head(rec.actions) = CriticalAlert

----------------------------------------------------------------------------
(* History manager and the analysis flow *)

RetentionDays == 30
KeepCount == 10

\* the instants datetime.now() is sampled at, in days
Clock == {0, 1, RetentionDays, RetentionDays + 1}

\* datetime.isoformat / datetime.fromisoformat
isoformat(t) == [iso |-> t]
fromisoformat(text) == text.iso

\* HISTORY_FILE: missing, unparsable, or the text json.dump wrote
NoFile == [file |-> "missing"]
Corrupt == [file |-> "corrupt"]

EntryKeys == <<"timestamp", "risk_score", "risk_level", "risk_factors", "observations">>

\* json.dump: each entry becomes an object, its members in insertion order
JsonDump(h) ==
    [file |-> "json",
     text |-> [i \in 1..Len(h) |-> [k \in 1..Len(EntryKeys) |-> <<EntryKeys[k], h[i][EntryKeys[k]]>>]]]

\* json.load of a text json.dump wrote
JsonLoad(f) ==
    [i \in 1..Len(f.text) |->
        [key \in Range(EntryKeys) |->
            f.text[i][CHOOSE k \in 1..Len(f.text[i]) : f.text[i][k][1] = key][2]]]

\* the startup load without its try/except: the decode error is not replaced by []
StartupLoadUncaught(f) ==
    IF f = NoFile THEN <<>>
    ELSE IF f = Corrupt THEN << [exception |-> "JSONDecodeError"] >>
    ELSE JsonLoad(f)

\* the session-state initialisation at the top of the script
StartupLoad(f) ==
    IF f = NoFile THEN <<>>
    ELSE IF f = Corrupt THEN <<>>
    ELSE JsonLoad(f)

\* open(HISTORY_FILE, "a") in place of "w"
SaveFileAppending(h) ==
    IF store \in {NoFile, Corrupt}
    THEN JsonDump(h)
    ELSE [file |-> "json", text |-> store.text \o JsonDump(h).text]

\* with open(HISTORY_FILE, "w") as f: json.dump(history, f)
SaveFile(h) == JsonDump(h)

\* the pruning filter keeping the entries at the cutoff as well
PruneInclusive(h, cutoff_date) ==
    SelectSeq(h, LAMBDA e : fromisoformat(e.timestamp) >= cutoff_date)

\* [h for h in history if datetime.fromisoformat(h["timestamp"]) > cutoff_date]
Prune(h, cutoff_date) ==
    SelectSeq(h, LAMBDA e : fromisoformat(e.timestamp) > cutoff_date)

\* the entry save_to_history builds; the fields copied from the location, the
\* notes and the snapshot do not affect any operation and are left out
NewEntry(t, risk_score, risk_level, risk_factors, observations) ==
    [timestamp |-> isoformat(t),
     risk_score |-> risk_score,
     risk_level |-> risk_level,
     risk_factors |-> risk_factors,
     observations |-> observations]

\* save_to_history: the history it leaves in the session state
save_to_history(h, t, risk_score, risk_level, risk_factors, observations) ==
    Prune(Append(h, NewEntry(t, risk_score, risk_level, risk_factors, observations)),
          t - RetentionDays)

\* what the weather provider call ends in
FetchFailures == {"timeout", "network error", "non-2xx", "malformed JSON"}

FlowPayloads == {Example2, EmptyDict}

FetchOutcomes ==
    {[kind |-> "ok", payload |-> w] : w \in FlowPayloads}
    \cup {[kind |-> k, payload |-> None] : k \in FetchFailures}

\* fetch_weather_data: every exception becomes None
fetch_weather_data(outcome) == IF outcome.kind = "ok" THEN outcome.payload ELSE None

NoAssessment == [assessed |-> FALSE]

Assessment(r, t) ==
    [assessed |-> TRUE, risk_score |-> r.risk_score, risk_level |-> r.risk_level,
     risk_factors |-> r.risk_factors, timestamp |-> t]

\* what a run of the analyze handler leaves: the session state, the file, the
\* message shown, and whether an exception left the handler
Outcome(h, f, assessment, message, raised) ==
    [history |-> h, store |-> f, current_assessment |-> assessment, status |-> message,
     raised |-> raised]

\* the handler without its "if weather_data" test: the scorer's fallback is
\* stored as the assessment, and save_to_history then calls None.get
analyze_unconditionally(weather, observations) ==
    LET r == calculate_risk_score(weather, observations)
        h == save_to_history(history, now, r.risk_score, r.risk_level, r.risk_factors,
                             observations)
    IN  IF weather = None
        THEN Outcome(history, store, Assessment(r, now), status, TRUE)
        ELSE Outcome(h, SaveFile(h), Assessment(r, now), "Analysis complete.", FALSE)

\* the body of "if analyze:", given what fetch_weather_data returned
analyze(weather, observations) ==
    IF ~NotWeather(weather)
    THEN LET r == calculate_risk_score(weather, observations)
             h == save_to_history(history, now, r.risk_score, r.risk_level, r.risk_factors,
                                  observations)
         IN  Outcome(h, SaveFile(h), Assessment(r, now), "Analysis complete.", FALSE)
    ELSE Outcome(history, store, current_assessment,
                 "Weather service unavailable. Try again shortly.", FALSE)

FlowObservations == {<<"Sewage overflow">>}

Before == [history |-> history, current_assessment |-> current_assessment]

Init ==
    /\ IdleScorer
    /\ IdleSelector
    /\ now = 0
    /\ store \in {NoFile, Corrupt}
    /\ history = StartupLoad(store)
    /\ current_assessment = NoAssessment
    /\ status = ""
    /\ last = [op |-> "start", at |-> 0, fetch |-> "", raised |-> FALSE,
               before |-> [history |-> <<>>, current_assessment |-> NoAssessment]]

\* time passes
Tick(t) ==
    /\ t > now
    /\ now' = t
    /\ UNCHANGED <<history, store, current_assessment, status, last, scorerVars, selectorVars>>

\* the "Analyze Water Safety" button, once a location is chosen
Analyze(outcome, observations) ==
    /\ Len(history) < MaxHist
    /\ LET out == analyze(fetch_weather_data(outcome), observations)
       IN  /\ history' = out.history
           /\ store' = out.store
           /\ current_assessment' = out.current_assessment
           /\ status' = out.status
           /\ last' = [op |-> "analyze", at |-> now, fetch |-> outcome.kind,
                       raised |-> out.raised, before |-> Before]
    /\ UNCHANGED <<now, scorerVars, selectorVars>>

\* the "Clear History" button, shown while the history is not empty
ClearHistory ==
    /\ history # <<>>
    /\ history' = <<>>
    /\ store' = NoFile
    /\ status' = "History cleared."
    /\ last' = [op |-> "clear", at |-> now, fetch |-> "", raised |-> FALSE, before |-> Before]
    /\ UNCHANGED <<now, current_assessment, scorerVars, selectorVars>>

\* the "Keep Last 10" button, shown while the history is not empty
KeepLast10 ==
    /\ history # <<>>
    /\ history' = FirstN(history, KeepCount)
    /\ store' = SaveFile(FirstN(history, KeepCount))
    /\ status' = "Pruned to last 10 entries."
    /\ last' = [op |-> "keep", at |-> now, fetch |-> "", raised |-> FALSE, before |-> Before]
    /\ UNCHANGED <<now, current_assessment, scorerVars, selectorVars>>

\* the process ends and a new one starts with an empty session state
Restart ==
    /\ history' = StartupLoad(store)
    /\ current_assessment' = NoAssessment
    /\ status' = ""
    /\ last' = [op |-> "start", at |-> now, fetch |-> "", raised |-> FALSE, before |-> Before]
    /\ UNCHANGED <<now, store, scorerVars, selectorVars>>

Next ==
    \/ \E t \in Clock : Tick(t)
    \/ \E outcome \in FetchOutcomes, observations \in FlowObservations :
           Analyze(outcome, observations)
    \/ ClearHistory
    \/ KeepLast10
    \/ Restart

Spec == Init /\ [][Next]_vars

----------------------------------------------------------------------------
(* Claims about the history manager and the flow, checked under Spec *)

\* the last handler was an analysis that recorded an entry
recorded == last.op = "analyze" /\ status = "Analysis complete."

\* the history the last handler started from, with the new entry appended
Extended ==
    Append(last.before.history,
           NewEntry(last.at, current_assessment.risk_score, current_assessment.risk_level,
                    current_assessment.risk_factors, history[Len(history)].observations))

\* the age in days, at the last handler, of an entry
Age(e) == last.at - e.timestamp.iso

\* seq restricted to the positions in keep, in order
Restrict(seq, keep) ==
    [j \in 1..Cardinality(keep) |->
        seq[CHOOSE i \in keep : Cardinality({k \in keep : k <= i}) = j]]

\* C1 as stated: a record leaves the previous history plus the new entry, minus
\* exactly the entries strictly older than 30 days, so that an entry aged
\* exactly 30 days is retained.
C1_PruneStrictlyOlder ==
    recorded =>
        /\ history # <<>>
        /\ history = Restrict(Extended, {i \in 1..Len(Extended) : Age(Extended[i]) <= RetentionDays})

\* C1, amended: a record leaves the previous history with the new entry
\* appended last, minus exactly the entries aged 30 days or more, in their
\* previous order: aged 31 days absent, aged exactly 30 days absent, aged 29
\* days retained.
C1_PruneThirtyDaysOrOlder ==
    recorded =>
        /\ history # <<>>
        /\ history[Len(history)].timestamp = isoformat(last.at)
        /\ history = Restrict(Extended, {i \in 1..Len(Extended) : Age(Extended[i]) < RetentionDays})
        /\ \A i \in 1..Len(last.before.history) :
               LET e == last.before.history[i]
               IN  /\ Age(e) = RetentionDays + 1 => e \notin Range(history)
                   /\ Age(e) = RetentionDays => e \notin Range(history)
                   /\ Age(e) = RetentionDays - 1 => e \in Range(history)

\* a record that met an entry aged exactly 30 days and one aged 29 days
C1_Witness ==
    /\ recorded
    /\ \E i, j \in 1..Len(last.before.history) :
           /\ Age(last.before.history[i]) = RetentionDays
           /\ Age(last.before.history[j]) = RetentionDays - 1
    /\ Len(history) < Len(last.before.history) + 1
    /\ Len(history) > 1

\* C2: after every record, truncate and clear-all the file holds exactly the
\* history in memory (no file after clear-all), so a restart loads the history
\* the process had.
C2_StoreMirrorsHistory ==
    /\ StartupLoad(store) = history
    /\ (recorded \/ last.op = "keep") =>
           (store.file = "json" /\ Len(store.text) = Len(history))
    /\ last.op = "clear" => (store = NoFile /\ history = <<>>)

\* a truncation that dropped an entry, written back to the file
C2_Witness ==
    /\ last.op = "keep"
    /\ Len(last.before.history) > KeepCount
    /\ Len(history) = KeepCount
    /\ StartupLoad(store) = history

\* the last handler was an analysis whose weather fetch failed
fetchFailed == last.op = "analyze" /\ last.fetch \in FetchFailures

\* C3 as stated: a failed fetch ends in the scorer's fallback, score 50 and
\* level Caution, and no exception.
C3_FallbackApplied ==
    fetchFailed =>
        /\ ~last.raised
        /\ current_assessment.assessed
        /\ current_assessment.risk_score = Pt(50)
        /\ current_assessment.risk_level = "Caution"

\* C3, amended: a failed fetch is turned into absent weather and no exception
\* leaves the handler; the handler reports the weather service unavailable and
\* neither scores nor records, so the assessment, the history and the file are
\* what they were.
C3_FetchFailureAborts ==
    fetchFailed =>
        /\ ~last.raised
        /\ status = "Weather service unavailable. Try again shortly."
        /\ current_assessment = last.before.current_assessment
        /\ history = last.before.history
        /\ StartupLoad(store) = last.before.history

\* a fetch that timed out after an earlier, successful analysis
C3_Witness ==
    /\ last.op = "analyze"
    /\ last.fetch = "timeout"
    /\ current_assessment.assessed
    /\ history # <<>>

----------------------------------------------------------------------------
(* Claims about truncation, checked under Spec *)

\* the last handler was "Keep Last 10"
truncated == last.op = "keep"

\* sub[i..] can be read off seq[j..] from left to right, skipping entries
RECURSIVE Embeds(_, _, _, _)
Embeds(sub, seq, i, j) ==
    IF i > Len(sub) THEN TRUE
    ELSE IF j > Len(seq) THEN FALSE
    ELSE IF sub[i] = seq[j] THEN Embeds(sub, seq, i + 1, j + 1)
    ELSE Embeds(sub, seq, i, j + 1)

\* C11: a truncation leaves exactly min(10, len) entries, and the entries left
\* are in the relative order they had before.
C11_TruncateCountAndOrder ==
    truncated =>
        /\ Len(history) = (IF Len(last.before.history) < KeepCount
                           THEN Len(last.before.history)
                           ELSE KeepCount)
        /\ Embeds(history, last.before.history, 1, 1)

\* a truncation of eleven entries that were not all recorded at the same time
C11_Witness ==
    /\ truncated
    /\ Len(last.before.history) = KeepCount + 1
    /\ Len(history) = KeepCount
    /\ history[1].timestamp # last.before.history[KeepCount + 1].timestamp

----------------------------------------------------------------------------
(* Startup on a damaged file: the flow of Spec, with a file that can be     *)
(* damaged behind the process's back                                        *)

\* HISTORY_FILE becomes unparsable (truncated or overwritten from outside)
Damage ==
    /\ store # Corrupt
    /\ store' = Corrupt
    /\ last' = [last EXCEPT !.op = "damage"]
    /\ UNCHANGED <<now, history, current_assessment, status, scorerVars, selectorVars>>

StartNext ==
    \/ Next
    \/ Damage

StartSpec == Init /\ [][StartNext]_vars

\* the last step was a process start
started == last.op = "start"

\* C12: a process that starts on a corrupt or unreadable file, or on no file,
\* starts without an exception and with the empty history.
C12_CorruptStoreStartsEmpty ==
    (started /\ store \in {Corrupt, NoFile}) =>
        /\ ~last.raised
        /\ history = <<>>
        /\ current_assessment = NoAssessment

\* a process that had a history, restarted after its file was damaged
C12_Witness ==
    /\ started
    /\ store = Corrupt
    /\ last.before.history # <<>>
    /\ history = <<>>

----------------------------------------------------------------------------
(* The entries a truncation keeps, checked under Spec *)

\* the number of entries of h recorded at t or later
RecordedSince(h, t) == Cardinality({i \in 1..Len(h) : fromisoformat(h[i].timestamp) >= t})

\* C13: a truncation of more than 10 entries retains the 10 entries with the
\* latest timestamps: from any instant on, it keeps as many entries as there
\* were, up to 10.
C13_KeepsMostRecent ==
    (truncated /\ Len(last.before.history) > KeepCount) =>
        \A t \in Clock :
            RecordedSince(history, t) =
                (IF RecordedSince(last.before.history, t) < KeepCount
                 THEN RecordedSince(last.before.history, t)
                 ELSE KeepCount)

====
